---------------------------- MODULE Spec2Model ----------------------------
(***************************************************************************)
(* A model of server.js: the RSS feed URL validator (validateRssUrl and    *)
(* its helpers), the per-URL feed cache (getFeed), the two routes that use *)
(* them (GET / and GET /api/episodes.json) and the episode normaliser      *)
(* (the map/filter over feed.items).                                       *)
(*                                                                         *)
(* JavaScript strings are TLA+ strings; the string functions of the        *)
(* source (startsWith, endsWith, includes, replace, toLowerCase, split,    *)
(* parseInt) are defined below character by character.                     *)
(***************************************************************************)
EXTENDS Integers, Sequences, FiniteSets, TLC

(***************************************************************************)
(* Bounds of the model.                                                    *)
(***************************************************************************)
MaxTime == 2      \* Date.now() ranges over 0..MaxTime
MaxTtl == 2       \* CACHE_TTL_MS is configured in 0..MaxTtl
NumSlots == 2     \* requests being handled at the same time
MaxItems == 3     \* feed.items has at most MaxItems items
MaxLimit == 3     \* EP_LIMIT is configured in 1..MaxLimit

(***************************************************************************)
(* String primitives.                                                      *)
(***************************************************************************)
CharAt(s, i) == SubSeq(s, i, i)

startsWith(s, p) == Len(s) >= Len(p) /\ SubSeq(s, 1, Len(p)) = p

endsWith(s, p) == Len(s) >= Len(p) /\ SubSeq(s, Len(s) - Len(p) + 1, Len(s)) = p

\* 0 when p does not occur in s from position `from` on, else the first position
minOr(hits, none) == IF hits = {} THEN none ELSE CHOOSE i \in hits : \A j \in hits : i <= j

maxOr(hits, none) == IF hits = {} THEN none ELSE CHOOSE i \in hits : \A j \in hits : i >= j

indexOfFrom(s, p, from) ==
    minOr({i \in from..(Len(s) - Len(p) + 1) : SubSeq(s, i, i + Len(p) - 1) = p}, 0)

indexOf(s, p) == indexOfFrom(s, p, 1)

includes(s, p) == indexOf(s, p) # 0

\* String.prototype.replace with a string pattern: the first occurrence only
replaceFirst(s, p, r) ==
    LET i == indexOf(s, p)
    IN IF i = 0 THEN s
       ELSE SubSeq(s, 1, i - 1) \o r \o SubSeq(s, i + Len(p), Len(s))

\* the characters of a string, as a set
CharsOf(alphabet) == {CharAt(alphabet, i) : i \in 1..Len(alphabet)}

UpperChars == "ABCDEFGHIJKLMNOPQRSTUVWXYZ"
LowerChars == "abcdefghijklmnopqrstuvwxyz"
DigitChars == "0123456789"
Uppers == CharsOf(UpperChars)
Lowers == CharsOf(LowerChars)
Digits == CharsOf(DigitChars)
HexDigits == CharsOf("0123456789abcdefABCDEF")

LowerOf == [c \in Uppers |-> CharAt(LowerChars, indexOf(UpperChars, c))]

lowerChar(c) == IF c \in Uppers THEN LowerOf[c] ELSE c

RECURSIVE toLowerCase(_)
toLowerCase(s) ==
    IF s = "" THEN "" ELSE lowerChar(CharAt(s, 1)) \o toLowerCase(SubSeq(s, 2, Len(s)))

allCharsOf(s, chars) == \A i \in 1..Len(s) : CharAt(s, i) \in chars

\* String.prototype.split with a one-character separator
RECURSIVE splitAt(_, _, _)
splitAt(s, sep, i) ==
    IF i = 0 THEN <<s>>
    ELSE <<SubSeq(s, 1, i - 1)>>
         \o splitAt(SubSeq(s, i + 1, Len(s)), sep, indexOf(SubSeq(s, i + 1, Len(s)), sep))

split(s, sep) == splitAt(s, sep, indexOf(s, sep))

\* parseInt(p, 10) of a string of decimal digits
RECURSIVE parseInt(_)
parseInt(p) ==
    IF p = "" THEN 0
    ELSE 10 * parseInt(SubSeq(p, 1, Len(p) - 1))
         + (indexOf(DigitChars, CharAt(p, Len(p))) - 1)


lastIndexOf(s, p) ==
    maxOr({i \in 1..(Len(s) - Len(p) + 1) : SubSeq(s, i, i + Len(p) - 1) = p}, 0)

RECURSIVE trim(_)
trim(s) ==
    IF s # "" /\ CharAt(s, 1) = " " THEN trim(SubSeq(s, 2, Len(s)))
    ELSE IF s # "" /\ CharAt(s, Len(s)) = " " THEN trim(SubSeq(s, 1, Len(s) - 1))
    ELSE s

RECURSIVE Pow256(_)
Pow256(n) == IF n = 0 THEN 1 ELSE 256 * Pow256(n - 1)

\* Number.prototype.toString of a natural number
RECURSIVE numToString(_)
numToString(n) ==
    IF n < 10 THEN CharAt(DigitChars, n + 1)
    ELSE numToString(n \div 10) \o CharAt(DigitChars, (n % 10) + 1)

(***************************************************************************)
(* net.isIP(input): 4 for a dotted-decimal IPv4 address, 6 for an IPv6     *)
(* address in text form (no brackets), 0 for anything else.  Zone ids and  *)
(* IPv6 addresses with an embedded IPv4 part are not drawn as inputs and   *)
(* count as 0 here.                                                        *)
(***************************************************************************)
isDecOctet(p) ==
    /\ Len(p) \in 1..3
    /\ allCharsOf(p, Digits)
    /\ (Len(p) > 1 => CharAt(p, 1) # "0")
    /\ parseInt(p) <= 255

allDecOctets(parts) == Len(parts) = 4 /\ \A i \in 1..4 : isDecOctet(parts[i])

isIPv4(s) == allDecOctets(split(s, "."))

\* the groups of an IPv6 address, `parts` being s.split(":")
groupsOk(s, parts, dbl) ==
    LET full == {i \in 1..Len(parts) : parts[i] # ""}
    IN /\ \A i \in 1..Len(parts) : Len(parts[i]) <= 4
       /\ IF dbl = 0 THEN Len(parts) = 8 /\ Cardinality(full) = 8
          ELSE indexOfFrom(s, "::", dbl + 1) = 0 /\ Cardinality(full) <= 7

isIPv6(s) ==
    /\ Len(s) >= 2
    /\ allCharsOf(s, HexDigits \cup {":"})
    /\ ~includes(s, ":::")
    /\ (CharAt(s, 1) = ":" => startsWith(s, "::"))
    /\ (CharAt(s, Len(s)) = ":" => endsWith(s, "::"))
    /\ groupsOk(s, split(s, ":"), indexOf(s, "::"))

isIP(s) == IF isIPv4(s) THEN 4 ELSE IF isIPv6(s) THEN 6 ELSE 0

(***************************************************************************)
(* new URL(input): the WHATWG URL parser as far as validateRssUrl reads    *)
(* its result (protocol, hostname, toString()).  The parser lower-cases    *)
(* the scheme and the host, rewrites an IPv4 host given in decimal parts   *)
(* to a dotted quad, and reports an IPv6 host WITH its square brackets.    *)
(* Not modelled: credentials in the serialisation, hexadecimal and octal   *)
(* IPv4 parts, percent-decoding and IDNA, the compression of an IPv6 host  *)
(* (the inputs drawn are compressed already).                              *)
(***************************************************************************)
SpecialSchemes == {"http", "https", "ftp", "ws", "wss"}

DefaultPort(scheme) ==
    IF scheme \in {"http", "ws"} THEN "80"
    ELSE IF scheme \in {"https", "wss"} THEN "443"
    ELSE IF scheme = "ftp" THEN "21" ELSE ""

ForbiddenHostChars == CharsOf(" #/<>?@[\\]^|%:")

RECURSIVE stripLeadingSlashes(_)
stripLeadingSlashes(s) ==
    IF s # "" /\ CharAt(s, 1) \in {"/", "\\"}
    THEN stripLeadingSlashes(SubSeq(s, 2, Len(s))) ELSE s

\* the first position of s holding a character of the set stops, else Len(s)+1
firstOf(s, stops) == minOr({i \in 1..Len(s) : CharAt(s, i) \in stops}, Len(s) + 1)

\* the IPv4 number parser on the parts nums of a host: the last part fills the
\* bytes the parts before it leave; "" when a part is out of range
serializeIPv4(nums, n) ==
    LET byte(k) == IF k < n THEN nums[k] ELSE (nums[n] \div Pow256(4 - k)) % 256
    IN IF (\E i \in 1..(n - 1) : nums[i] > 255) \/ (n > 1 /\ nums[n] >= Pow256(5 - n))
       THEN ""
       ELSE numToString(byte(1)) \o "." \o numToString(byte(2)) \o "."
            \o numToString(byte(3)) \o "." \o numToString(byte(4))

\* the host parser on the parts of a host that ends in a number: "" when it is no
\* IPv4 address.  (A part of more than nine digits is refused here: the model's
\* integers are 32 bits wide.)
parseIPv4Parts(parts) ==
    IF \/ Len(parts) > 4
       \/ \E i \in 1..Len(parts) :
             parts[i] = "" \/ ~allCharsOf(parts[i], Digits) \/ Len(parts[i]) > 9
    THEN ""
    ELSE serializeIPv4([i \in 1..Len(parts) |-> parseInt(parts[i])], Len(parts))

withoutTrailingDot(host) ==
    IF endsWith(host, ".") THEN SubSeq(host, 1, Len(host) - 1) ELSE host

lastOf(seq) == seq[Len(seq)]

endsInNumber(parts) == lastOf(parts) # "" /\ allCharsOf(lastOf(parts), Digits)

parseDomainOrIPv4(raw, parts) ==
    IF endsInNumber(parts) THEN parseIPv4Parts(parts) ELSE toLowerCase(raw)

\* the host parser: the serialised host, "" on failure
parseHost(raw) ==
    IF raw = "" THEN ""
    ELSE IF CharAt(raw, 1) = "["
    THEN IF CharAt(raw, Len(raw)) = "]" /\ isIPv6(SubSeq(raw, 2, Len(raw) - 1))
         THEN "[" \o toLowerCase(SubSeq(raw, 2, Len(raw) - 1)) \o "]"
         ELSE ""
    ELSE IF \E i \in 1..Len(raw) : CharAt(raw, i) \in ForbiddenHostChars
    THEN ""
    ELSE parseDomainOrIPv4(raw, split(withoutTrailingDot(raw), "."))

InvalidUrl == [ok |-> FALSE, protocol |-> "", hostname |-> "", href |-> ""]

\* the port as serialised: "" for none or the scheme's default, "-" when invalid
parsePort(scheme, rawPort) ==
    IF rawPort = "" THEN ""
    ELSE IF ~allCharsOf(rawPort, Digits) \/ Len(rawPort) > 5 THEN "-"
    ELSE IF parseInt(rawPort) > 65535 THEN "-"
    ELSE IF numToString(parseInt(rawPort)) = DefaultPort(scheme) THEN ""
    ELSE ":" \o numToString(parseInt(rawPort))

\* the path state on what follows the authority
parsePath(tail) ==
    IF tail = "" THEN "/"
    ELSE IF CharAt(tail, 1) \in {"/", "\\"} THEN "/" \o SubSeq(tail, 2, Len(tail))
    ELSE "/" \o tail

serializeUrl(scheme, host, port, path) ==
    IF host = "" \/ port = "-" THEN InvalidUrl
    ELSE [ok |-> TRUE, protocol |-> scheme \o ":", hostname |-> host,
          href |-> scheme \o "://" \o host \o port \o path]

\* host and port, sep being the position of the ":" between them (0: no port)
parseHostPortAt(scheme, hostport, sep, path) ==
    IF sep = 0 THEN serializeUrl(scheme, parseHost(hostport), "", path)
    ELSE IF CharAt(hostport, sep) # ":" THEN InvalidUrl
    ELSE serializeUrl(scheme, parseHost(SubSeq(hostport, 1, sep - 1)),
                      parsePort(scheme, SubSeq(hostport, sep + 1, Len(hostport))), path)

\* the position after the "]" of a bracketed host, 0 when nothing follows it
afterBracket(hostport, close) == IF close # 0 /\ close < Len(hostport) THEN close + 1 ELSE 0

parseHostPort(scheme, hostport, path) ==
    parseHostPortAt(scheme, hostport,
                    IF startsWith(hostport, "[")
                    THEN afterBracket(hostport, indexOf(hostport, "]"))
                    ELSE indexOf(hostport, ":"),
                    path)

\* the authority without its credentials
withoutCredentials(authority) ==
    SubSeq(authority, lastIndexOf(authority, "@") + 1, Len(authority))

\* the authority state: rest is the input after the scheme and its slashes, cut the
\* position where the authority ends
parseAuthority(scheme, rest, cut) ==
    parseHostPort(scheme, withoutCredentials(SubSeq(rest, 1, cut - 1)),
                  parsePath(SubSeq(rest, cut, Len(rest))))

parseSpecial(scheme, rest) ==
    parseAuthority(scheme, rest, firstOf(rest, {"/", "?", "#", "\\"}))

parseAfterScheme(input, colon, scheme) ==
    IF CharAt(scheme, 1) \notin Lowers
       \/ ~allCharsOf(scheme, Lowers \cup Digits \cup {"+", "-", "."})
    THEN InvalidUrl
    ELSE IF scheme \notin SpecialSchemes
    THEN [ok |-> TRUE, protocol |-> scheme \o ":", hostname |-> "",
          href |-> scheme \o ":" \o SubSeq(input, colon + 1, Len(input))]
    ELSE parseSpecial(scheme, stripLeadingSlashes(SubSeq(input, colon + 1, Len(input))))

parseScheme(input, colon) ==
    IF colon <= 1 THEN InvalidUrl
    ELSE parseAfterScheme(input, colon, toLowerCase(SubSeq(input, 1, colon - 1)))

URL(input) == parseScheme(input, indexOf(input, ":"))

(***************************************************************************)
(* The state.                                                              *)
(*   Configuration, read once from the environment when the module loads:  *)
(*     RSS_DOMAIN_ALLOWLIST, ALLOW_QUERY_RSS, CACHE_TTL_MS, EP_LIMIT.      *)
(*   The validator under test:  inputUrl, validation.                      *)
(*   The normaliser under test: items, episodes.                           *)
(*   applied: whether the function under test has run (validation or       *)
(*   episodes holds its result).                                           *)
(*   The server: now (Date.now()), cache (the Map), slot (one record per   *)
(*   request being handled: the locals of the route and of                 *)
(*   getFeed), sent (what the last step did for a request).                *)
(*   The page's script: currentIndex, and dom (which episode button is     *)
(*   active and which is focused, by index; which media element is shown   *)
(*   and its src).  The script's `episodes` is the variable episodes.      *)
(***************************************************************************)
VARIABLES RSS_DOMAIN_ALLOWLIST, ALLOW_QUERY_RSS, CACHE_TTL_MS, EP_LIMIT,
          inputUrl, validation, items, episodes, applied, now, cache, slot, sent,
          currentIndex, dom

vars == <<RSS_DOMAIN_ALLOWLIST, ALLOW_QUERY_RSS, CACHE_TTL_MS, EP_LIMIT,
          inputUrl, validation, items, episodes, applied, now, cache, slot, sent,
          currentIndex, dom>>

\* the page in the browser, before its script has run: no episode button is
\* active or focused (-1), neither media element is shown or has a src
NoDom == [active |-> -1, focused |-> -1, shown |-> "none", src |-> ""]

(***************************************************************************)
(* RSS_DOMAIN_ALLOWLIST = env.split(",").map(trim, toLowerCase)            *)
(*                           .filter(Boolean)                              *)
(***************************************************************************)
parseAllowlist(env) ==
    LET parts == split(env, ",")
        cleaned == [i \in 1..Len(parts) |-> toLowerCase(trim(parts[i]))]
    IN SelectSeq(cleaned, LAMBDA e : e # "")

AllowlistEnvs == {"", "example.com", " Example.COM , feeds.example.org,"}

(***************************************************************************)
(* isPrivateIpLiteral(hostname)                                            *)
(***************************************************************************)
isPrivateIPv4(a, b) ==
    \/ a = 10
    \/ (a = 172 /\ b >= 16 /\ b <= 31)
    \/ (a = 192 /\ b = 168)
    \/ a = 127
    \/ (a = 169 /\ b = 254)
    \/ a = 0
    \/ (a = 100 /\ b >= 64 /\ b <= 127)

isPrivateIPv6(h) ==
    \/ h = "::1"
    \/ startsWith(h, "fe80:")
    \/ startsWith(h, "fc") \/ startsWith(h, "fd")

firstTwo(parts) == <<parseInt(parts[1]), parseInt(parts[2])>>

isPrivateOfVersion(hostname, ipVersion) ==
    IF ipVersion = 0 THEN FALSE
    ELSE IF ipVersion = 4
    THEN isPrivateIPv4(firstTwo(split(hostname, "."))[1], firstTwo(split(hostname, "."))[2])
    ELSE isPrivateIPv6(toLowerCase(hostname))

isPrivateIpLiteral(hostname) ==
    IF hostname = "" THEN FALSE ELSE isPrivateOfVersion(hostname, isIP(hostname))

(***************************************************************************)
(* passesAllowlist(hostname).  RSS_DOMAIN_ALLOWLIST, which the source      *)
(* reads as a module constant, is the parameter allowlist here and in      *)
(* validateRssUrl.                                                         *)
(***************************************************************************)
\* passesAllowlist as it would be with h.endsWith(d) in place of h.endsWith("." + d)
passesAllowlistNoDot(hostname, allowlist) ==
    IF Len(allowlist) = 0 THEN TRUE
    ELSE \E i \in 1..Len(allowlist) : endsWith(toLowerCase(hostname), allowlist[i])

someAllowed(h, allowlist) ==
    \E i \in 1..Len(allowlist) : h = allowlist[i] \/ endsWith(h, "." \o allowlist[i])

passesAllowlist(hostname, allowlist) ==
    IF Len(allowlist) = 0 THEN TRUE ELSE someAllowed(toLowerCase(hostname), allowlist)

(***************************************************************************)
(* validateRssUrl(inputUrl)                                                *)
(***************************************************************************)
Rejected(reason) == [ok |-> FALSE, reason |-> reason, url |-> ""]

\* validateRssUrl after new URL(inputUrl) has given url
validateParsed(url, h, allowlist) ==
    IF ~url.ok THEN Rejected("Invalid URL")
    ELSE IF url.protocol \notin {"http:", "https:"}
    THEN Rejected("Only http/https URLs are allowed")
    ELSE IF h = "localhost" \/ endsWith(h, ".localhost") \/ endsWith(h, ".local")
    THEN Rejected("Localhost/local domains are not allowed")
    ELSE IF isPrivateIpLiteral(url.hostname)
    THEN Rejected("Private IP addresses are not allowed")
    ELSE IF ~passesAllowlist(url.hostname, allowlist)
    THEN Rejected("Hostname not in allowlist")
    ELSE [ok |-> TRUE, reason |-> "", url |-> url.href]

hostnameLower(url) == toLowerCase(url.hostname)

validateUrl(url, allowlist) == validateParsed(url, hostnameLower(url), allowlist)

validateRssUrl(input, allowlist) == validateUrl(URL(input), allowlist)

(***************************************************************************)
(* The episode normaliser.  A feed item is a record                        *)
(*   enclosure      <<>> (absent) or <<[url, type]>>                       *)
(*   mediaContent   the media:content array, each entry the $ attributes   *)
(*   mediaThumbnail the media:thumbnail array, each entry its $.url        *)
(*   itunesImage    [form |-> "none" | "string" | "href" | "url", value]   *)
(*   link           a string ("" when absent)                              *)
(* title, date, description and duration are copied or cut per item and    *)
(* feed nothing else in the record; they are left out.                     *)
(***************************************************************************)
normalizeToHttps(url) ==
    IF url = "" THEN ""
    ELSE IF startsWith(url, "http://") THEN replaceFirst(url, "http://", "https://")
    ELSE url

pickImageUrl(item) ==
    LET tn == IF Len(item.mediaThumbnail) > 0 THEN item.mediaThumbnail[1] ELSE ""
    IN IF tn # "" THEN normalizeToHttps(tn)
       ELSE IF item.itunesImage.form # "none" /\ item.itunesImage.value # ""
       THEN normalizeToHttps(item.itunesImage.value)
       ELSE ""

pickMedia(item) ==
    IF Len(item.enclosure) > 0 /\ item.enclosure[1].url # ""
    THEN [url |-> item.enclosure[1].url, type |-> item.enclosure[1].type]
    ELSE IF Len(item.mediaContent) > 0 /\ item.mediaContent[1].url # ""
    THEN [url |-> item.mediaContent[1].url, type |-> item.mediaContent[1].type]
    ELSE [url |-> item.link, type |-> ""]

\* u.match(/\.(e1|e2|...)(\?|#|$)/) for the extensions exts
matchesExt(u, exts) ==
    \E e \in exts :
       \E i \in 1..(Len(u) - Len(e)) :
          /\ SubSeq(u, i, i + Len(e)) = "." \o e
          /\ \/ i + Len(e) = Len(u)
             \/ CharAt(u, i + Len(e) + 1) \in {"?", "#"}

\* inferKind as it would be if the URL were consulted before the MIME type
inferKindUrlFirst(mediaUrl, mediaType) ==
    IF includes(toLowerCase(mediaUrl), ".m3u8") THEN "video"
    ELSE IF matchesExt(toLowerCase(mediaUrl), {"mp4", "webm", "mov"}) THEN "video"
    ELSE IF matchesExt(toLowerCase(mediaUrl), {"mp3", "m4a", "aac", "ogg", "wav"})
    THEN "audio"
    ELSE IF startsWith(toLowerCase(mediaType), "video/") THEN "video"
    ELSE "audio"

inferKind(mediaUrl, mediaType) ==
    LET u == toLowerCase(mediaUrl)
        t == toLowerCase(mediaType)
    IN IF startsWith(t, "video/") THEN "video"
       ELSE IF startsWith(t, "audio/") THEN "audio"
       ELSE IF includes(u, ".m3u8") THEN "video"
       ELSE IF matchesExt(u, {"mp4", "webm", "mov"}) THEN "video"
       ELSE IF matchesExt(u, {"mp3", "m4a", "aac", "ogg", "wav"}) THEN "audio"
       ELSE "audio"

\* slice0 as it would be if the limit were not applied
sliceAll(seq, n) == seq

\* Array.prototype.slice(0, n) for n >= 0
slice0(seq, n) == SubSeq(seq, 1, IF n < Len(seq) THEN n ELSE Len(seq))

\* the callback of .map((it, idx) => ...): idx is 0-based
episodeOf(it, idx) ==
    LET media == pickMedia(it)
    IN [id |-> idx,
        mediaUrl |-> media.url,
        mediaType |-> media.type,
        kind |-> inferKind(media.url, media.type),
        imageUrl |-> pickImageUrl(it),
        link |-> it.link]

\* Episodes as it would be with the filter applied before the map, so that idx
\* counts the records kept
EpisodesFilterFirst(feedItems, limit) ==
    LET playable == SelectSeq(slice0(feedItems, limit), LAMBDA it : pickMedia(it).url # "")
    IN [i \in 1..Len(playable) |-> episodeOf(playable[i], i - 1)]

\* (feed.items || []).slice(0, EP_LIMIT).map(...).filter((e) => !!e.mediaUrl)
Episodes(feedItems, limit) ==
    LET sliced == slice0(feedItems, limit)
        mapped == [i \in 1..Len(sliced) |-> episodeOf(sliced[i], i - 1)]
    IN SelectSeq(mapped, LAMBDA e : e.mediaUrl # "")

(***************************************************************************)
(* Inputs.                                                                 *)
(***************************************************************************)
NoImage == [form |-> "none", value |-> ""]

Item(enclosure, mediaContent, mediaThumbnail, itunesImage, link) ==
    [enclosure |-> enclosure, mediaContent |-> mediaContent,
     mediaThumbnail |-> mediaThumbnail, itunesImage |-> itunesImage, link |-> link]

\* an http enclosure with a MIME type, an http thumbnail
ItemAudio ==
    Item(<<[url |-> "http://cdn.example.com/a.mp3", type |-> "audio/mpeg"]>>, <<>>,
         <<"http://img.example.com/t.jpg">>, NoImage, "https://example.com/ep1")

\* no enclosure: the first media:content entry, no type; an iTunes image object
ItemVideo ==
    Item(<<>>, <<[url |-> "https://cdn.example.com/v.mp4?x=1", type |-> ""],
                 [url |-> "http://cdn.example.com/v.webm", type |-> "video/webm"]>>,
         <<>>, [form |-> "href", value |-> "http://img.example.com/i.png"], "")

\* neither enclosure nor media:content: the item's link; an iTunes image string
ItemLinkOnly ==
    Item(<<>>, <<>>, <<>>, [form |-> "string", value |-> "https://img.example.com/s.png"],
         "http://example.com/ep3")

\* nothing playable: an enclosure without url, no media:content, no link
ItemNoMedia ==
    Item(<<[url |-> "", type |-> "audio/mpeg"]>>, <<>>, <<>>,
         [form |-> "url", value |-> "http://img.example.com/u.png"], "")

\* nothing at all
ItemEmpty == Item(<<>>, <<>>, <<>>, NoImage, "")

\* an HLS stream given as enclosure without a type
ItemHls ==
    Item(<<[url |-> "HTTP://cdn.example.com/live.M3U8", type |-> ""]>>, <<>>,
         <<"">>, [form |-> "href", value |-> ""], "https://example.com/live")

Items == {ItemAudio, ItemVideo, ItemLinkOnly, ItemNoMedia, ItemEmpty, ItemHls}

RECURSIVE SeqsUpTo(_, _)
SeqsUpTo(S, n) ==
    IF n = 0 THEN {<<>>}
    ELSE LET shorter == SeqsUpTo(S, n - 1)
         IN shorter \cup {Append(q, x) : q \in {t \in shorter : Len(t) = n - 1}, x \in S}

SchemesIn == {"http://", "https://", "HTTPS://", "ftp://", "file:///", ""}

HostsIn == {"localhost", "a.localhost", "x.local", "LOCALHOST", "127.0.0.1", "10.1.2.3",
            "192.168.0.5", "169.254.1.1", "172.16.0.1", "172.32.0.1", "100.64.0.1",
            "0.0.0.0", "8.8.8.8", "[::1]", "[fe80::1]", "[fc00::1]", "[fd12::1]",
            "[2001:db8::1]", "::1", "example.com", "sub.example.com", "evilexample.com",
            "Sub.Example.COM", "feeds.example.org", "example.com.evil.net", "example.org",
            "com", ""}

PathsIn == {"/feed.xml", ":8080/rss?x=1", ""}

UrlsIn == {s \o h \o p : s \in SchemesIn, h \in HostsIn, p \in PathsIn}

(***************************************************************************)
(* The server.                                                             *)
(***************************************************************************)
DEFAULT_RSS_URL == "https://anchor.fm/s/your-default-rss-id/podcast/rss"

Routes == {"/", "/api/episodes.json"}

\* the values of ?rss= : absent, a public feed, a host and a scheme the validator refuses
RssQueries == {"", "https://Feeds.Example.org/show.xml", "http://localhost/feed",
               "ftp://example.com/feed.xml"}

\* the values of ?refresh=
RefreshQueries == {"", "1"}

\* what parser.parseURL can resolve to
UpstreamFeeds ==
    {[title |-> "Show (monday)", items |-> <<ItemAudio, ItemNoMedia, ItemVideo>>],
     [title |-> "", items |-> <<ItemHls, ItemEmpty, ItemLinkOnly, ItemAudio>>]}

\* the allowlists the server is started with
ServerAllowlists == {parseAllowlist(e) : e \in {"", "example.com"}}

\* validateRssUrl and the episode list, tabulated once over the server's inputs
ValidatedQuery ==
    [rss \in RssQueries, allowlist \in ServerAllowlists |-> validateRssUrl(rss, allowlist)]

EpisodesOfFeed ==
    [feed \in UpstreamFeeds, limit \in 0..MaxLimit |-> Episodes(feed.items, limit)]

RECURSIVE escapeHtml(_)
escapeHtml(str) ==
    IF str = "" THEN ""
    ELSE LET c == CharAt(str, 1)
             e == IF c = "&" THEN "&amp;"
                  ELSE IF c = "<" THEN "&lt;"
                  ELSE IF c = ">" THEN "&gt;"
                  ELSE IF c = "\"" THEN "&quot;"
                  ELSE IF c = "'" THEN "&#039;"
                  ELSE c
         IN e \o escapeHtml(SubSeq(str, 2, Len(str)))

\* crypto sha256, hex, 24 characters: a digest, taken to be free of collisions on
\* the URLs of the model
stableHash(input) == <<"sha256/24", input>>

\* cache.get(key): <<>> for undefined, else <<entry>>
cacheGet(c, key) == IF key \in DOMAIN c THEN <<c[key]>> ELSE <<>>

\* cache.set(key, entry)
cacheSet(c, key, entry) ==
    [k \in (DOMAIN c) \cup {key} |-> IF k = key THEN entry ELSE c[k]]

\* servedFromCache as it would be if getFeed did not read force
servedFromCacheIgnoringForce(force, existing, t) ==
    existing # <<>> /\ t - existing[1].at < CACHE_TTL_MS

\* getFeed's test: !force && existing && existing.feed && now - existing.at < TTL
servedFromCache(force, existing, t) ==
    ~force /\ existing # <<>> /\ t - existing[1].at < CACHE_TTL_MS

\* res.status(400): .json({error}) on the API route, .send(text) on the page route
badRequest(route, reason) ==
    IF route = "/api/episodes.json" THEN [error |-> reason]
    ELSE "Bad rss parameter: " \o escapeHtml(reason)

\* the catch blocks of the two routes: res.status(500)
serverError(route) ==
    IF route = "/api/episodes.json" THEN [error |-> "Error fetching/parsing RSS feed."]
    ELSE "Error fetching/parsing RSS feed."

\* the 200 responses: the JSON document, and what the page is rendered from
okBody(route, feed, rssUrl) ==
    IF route = "/api/episodes.json"
    THEN [feed |-> [title |-> feed.title, rssUrl |-> rssUrl],
          episodes |-> EpisodesOfFeed[feed, EP_LIMIT]]
    ELSE [channelTitle |-> IF feed.title # "" THEN feed.title ELSE "TV Channel",
          episodes |-> EpisodesOfFeed[feed, EP_LIMIT]]

\* a request whose handler waits for parser.parseURL: the route, and the locals of
\* getFeed that are read after the await
IdleSlot == [pc |-> "idle", route |-> "", rssUrl |-> "", now |-> 0]

\* what the last step did for a request (NoEvent when it did nothing for one): the
\* route and rssUrl; when the request arrived in this step, its rss query, force and
\* existing (cache.get(key): <<>> for undefined, else <<entry>>), which the handler
\* reads no more once it has resumed; what became of parser.parseURL ("none": not
\* called, "pending": called by this step, "ok", "failed"); the response sent
\* (status 0: none yet)
NoEvent ==
    [route |-> "", rss |-> "", rssUrl |-> "", force |-> FALSE, existing |-> <<>>,
     upstream |-> "none", status |-> 0, body |-> <<>>]

Slots == 1..NumSlots

\* queryRefused as it would be if the routes did not read v.ok
queryNeverRefused(rss, v) == FALSE

\* if (ALLOW_QUERY_RSS && req.query.rss) { v = validateRssUrl(...); if (!v.ok) ... }
queryRefused(rss, v) == ALLOW_QUERY_RSS /\ rss # "" /\ ~v.ok

(***************************************************************************)
(* A request arrives: the route handler up to its first suspension.  `v`   *)
(* is validateRssUrl(String(req.query.rss)).  A refused rss parameter ends *)
(* the request with 400; a fresh cache entry ends it with 200 (the await   *)
(* of an already settled getFeed lets no other handler in); otherwise      *)
(* parser.parseURL(rssUrl) is started and the handler waits.               *)
(***************************************************************************)
Handle(s, route, rss, refresh, v) ==
    LET rssUrl == IF ALLOW_QUERY_RSS /\ rss # "" THEN v.url ELSE DEFAULT_RSS_URL
        force == refresh = "1"
        existing == cacheGet(cache, stableHash(rssUrl))
        call == [NoEvent EXCEPT !.route = route, !.rss = rss, !.rssUrl = rssUrl,
                                !.force = force, !.existing = existing]
    IN /\ slot[s].pc = "idle"
       /\ \A t \in Slots : t < s => slot[t].pc # "idle"
       /\ IF queryRefused(rss, v)
          THEN /\ sent' = [NoEvent EXCEPT !.route = route, !.rss = rss, !.status = 400,
                                          !.body = badRequest(route, v.reason)]
               /\ slot' = slot
          ELSE IF servedFromCache(force, existing, now)
          THEN /\ sent' = [call EXCEPT !.status = 200,
                                       !.body = okBody(route, existing[1].feed, rssUrl)]
               /\ slot' = slot
          ELSE /\ sent' = [call EXCEPT !.upstream = "pending"]
               /\ slot' = [slot EXCEPT ![s] = [pc |-> "fetching", route |-> route,
                                               rssUrl |-> rssUrl, now |-> now]]
       /\ UNCHANGED <<currentIndex, dom, RSS_DOMAIN_ALLOWLIST, ALLOW_QUERY_RSS, CACHE_TTL_MS, EP_LIMIT,
                      inputUrl, validation, items, episodes, applied, now, cache>>

Request(rss) ==
    \E s \in Slots, route \in Routes, refresh \in RefreshQueries :
       Handle(s, route, rss, refresh, ValidatedQuery[rss, RSS_DOMAIN_ALLOWLIST])

\* the request of slot s, resumed
Resumed(s) == [NoEvent EXCEPT !.route = slot[s].route, !.rssUrl = slot[s].rssUrl]

\* parser.parseURL resolves: cache.set(key, {at: now, feed}) with the now read when
\* getFeed was called, then the route builds and sends the 200 response
FetchOk(s, feed) ==
    /\ slot[s].pc = "fetching"
    /\ cache' = cacheSet(cache, stableHash(slot[s].rssUrl),
                         [at |-> slot[s].now, feed |-> feed])
    /\ sent' = [Resumed(s) EXCEPT !.upstream = "ok", !.status = 200,
                                  !.body = okBody(slot[s].route, feed, slot[s].rssUrl)]
    /\ slot' = [slot EXCEPT ![s] = IdleSlot]
    /\ UNCHANGED <<currentIndex, dom, RSS_DOMAIN_ALLOWLIST, ALLOW_QUERY_RSS, CACHE_TTL_MS, EP_LIMIT,
                   inputUrl, validation, items, episodes, applied, now>>

\* FetchFail as it would be if a failed fetch also deleted the URL's entry
FetchFailErasing(s) ==
    /\ slot[s].pc = "fetching"
    /\ cache' = [k \in (DOMAIN cache) \ {stableHash(slot[s].rssUrl)} |-> cache[k]]
    /\ sent' = [Resumed(s) EXCEPT !.upstream = "failed", !.status = 500,
                                  !.body = serverError(slot[s].route)]
    /\ slot' = [slot EXCEPT ![s] = IdleSlot]
    /\ UNCHANGED <<currentIndex, dom, RSS_DOMAIN_ALLOWLIST, ALLOW_QUERY_RSS, CACHE_TTL_MS, EP_LIMIT,
                   inputUrl, validation, items, episodes, applied, now>>

\* FetchFail as it would be if getFeed fell back to the entry the cache holds
FetchFailServingStale(s) ==
    /\ slot[s].pc = "fetching"
    /\ sent' = IF stableHash(slot[s].rssUrl) \in DOMAIN cache
               THEN [Resumed(s) EXCEPT !.upstream = "failed", !.status = 200,
                                       !.body = okBody(slot[s].route,
                                                       cache[stableHash(slot[s].rssUrl)].feed,
                                                       slot[s].rssUrl)]
               ELSE [Resumed(s) EXCEPT !.upstream = "failed", !.status = 500,
                                       !.body = serverError(slot[s].route)]
    /\ slot' = [slot EXCEPT ![s] = IdleSlot]
    /\ UNCHANGED <<currentIndex, dom, RSS_DOMAIN_ALLOWLIST, ALLOW_QUERY_RSS, CACHE_TTL_MS, EP_LIMIT,
                   inputUrl, validation, items, episodes, applied, now, cache>>

\* parser.parseURL rejects: getFeed throws past cache.set, the route's catch sends 500
FetchFail(s) ==
    /\ slot[s].pc = "fetching"
    /\ sent' = [Resumed(s) EXCEPT !.upstream = "failed", !.status = 500,
                                  !.body = serverError(slot[s].route)]
    /\ slot' = [slot EXCEPT ![s] = IdleSlot]
    /\ UNCHANGED <<currentIndex, dom, RSS_DOMAIN_ALLOWLIST, ALLOW_QUERY_RSS, CACHE_TTL_MS, EP_LIMIT,
                   inputUrl, validation, items, episodes, applied, now, cache>>

\* Date.now() advances
Tick ==
    /\ now < MaxTime
    /\ now' = now + 1
    /\ sent' = NoEvent
    /\ UNCHANGED <<currentIndex, dom, RSS_DOMAIN_ALLOWLIST, ALLOW_QUERY_RSS, CACHE_TTL_MS, EP_LIMIT,
                   inputUrl, validation, items, episodes, applied, cache, slot>>

Init ==
    /\ RSS_DOMAIN_ALLOWLIST \in ServerAllowlists
    /\ ALLOW_QUERY_RSS \in BOOLEAN
    /\ CACHE_TTL_MS \in 0..MaxTtl
    /\ EP_LIMIT = MaxLimit
    /\ inputUrl = ""
    /\ validation = Rejected("")
    /\ items = <<>>
    /\ episodes = <<>>
    /\ applied = FALSE
    /\ now = 0
    /\ cache = <<>>
    /\ slot = [s \in Slots |-> IdleSlot]
    /\ sent = NoEvent
    /\ currentIndex = 0
    /\ dom = NoDom

Next ==
    \/ \E rss \in RssQueries : Request(rss)
    \/ \E s \in Slots, feed \in UpstreamFeeds : FetchOk(s, feed)
    \/ \E s \in Slots : FetchFail(s)
    \/ Tick

Spec == Init /\ [][Next]_vars

(***************************************************************************)
(* The validator alone: one URL and one allowlist are drawn, and           *)
(* validateRssUrl is applied.                                              *)
(***************************************************************************)
InitValidate ==
    /\ RSS_DOMAIN_ALLOWLIST \in {parseAllowlist(e) : e \in AllowlistEnvs}
    /\ ALLOW_QUERY_RSS = TRUE
    /\ CACHE_TTL_MS = 0
    /\ EP_LIMIT = 0
    /\ inputUrl \in UrlsIn
    /\ validation = Rejected("")
    /\ items = <<>>
    /\ episodes = <<>>
    /\ applied = FALSE
    /\ now = 0
    /\ cache = <<>>
    /\ slot = [s \in Slots |-> IdleSlot]
    /\ sent = NoEvent
    /\ currentIndex = 0
    /\ dom = NoDom

Validate ==
    /\ ~applied
    /\ validation' = validateRssUrl(inputUrl, RSS_DOMAIN_ALLOWLIST)
    /\ applied' = TRUE
    /\ UNCHANGED <<currentIndex, dom, RSS_DOMAIN_ALLOWLIST, ALLOW_QUERY_RSS, CACHE_TTL_MS, EP_LIMIT,
                   inputUrl, items, episodes, now, cache, slot, sent>>

NextValidate == Validate

SpecValidate == InitValidate /\ [][NextValidate]_vars

(***************************************************************************)
(* The normaliser alone: a sequence of feed items and a limit are drawn,   *)
(* and the map/filter of the routes is applied.                            *)
(***************************************************************************)
InitNormalize ==
    /\ RSS_DOMAIN_ALLOWLIST = <<>>
    /\ ALLOW_QUERY_RSS = TRUE
    /\ CACHE_TTL_MS = 0
    /\ EP_LIMIT \in 0..MaxLimit
    /\ inputUrl = ""
    /\ validation = Rejected("")
    /\ items \in SeqsUpTo(Items, MaxItems)
    /\ episodes = <<>>
    /\ applied = FALSE
    /\ now = 0
    /\ cache = <<>>
    /\ slot = [s \in Slots |-> IdleSlot]
    /\ sent = NoEvent
    /\ currentIndex = 0
    /\ dom = NoDom

Normalize ==
    /\ ~applied
    /\ episodes' = Episodes(items, EP_LIMIT)
    /\ applied' = TRUE
    /\ UNCHANGED <<currentIndex, dom, RSS_DOMAIN_ALLOWLIST, ALLOW_QUERY_RSS, CACHE_TTL_MS, EP_LIMIT,
                   inputUrl, validation, items, now, cache, slot, sent>>

NextNormalize == Normalize

SpecNormalize == InitNormalize /\ [][NextNormalize]_vars

(***************************************************************************)
(* Kind inference alone: one item with an enclosure is drawn, its URL and  *)
(* MIME type from the sets below, and the map/filter of the routes is      *)
(* applied to it, which calls inferKind(mediaUrl, media.type).             *)
(***************************************************************************)
MediaExtsIn ==
    {".mp3", ".m4a", ".aac", ".ogg", ".wav", ".mp4", ".webm", ".mov", ".m3u8", ".MP4",
     ".Mp3", ".txt", "", ".mp4x", ".m3u8x", ".mp3.mp4", ".mp4.mp3"}

MediaTailsIn == {"", "?x=1", "#t=5", "/seg.mp3", "?f=a.mp4", "&x"}

MediaUrlsIn ==
    {"https://cdn.example.com/ep" \o e \o t : e \in MediaExtsIn, t \in MediaTailsIn}

MediaTypesIn ==
    {"", "video/mp4", "audio/mpeg", "Video/MP4", "AUDIO/x-wav", "application/x-mpegurl",
     "text/video/"}

InitKind ==
    /\ RSS_DOMAIN_ALLOWLIST = <<>>
    /\ ALLOW_QUERY_RSS = TRUE
    /\ CACHE_TTL_MS = 0
    /\ EP_LIMIT = 1
    /\ inputUrl = ""
    /\ validation = Rejected("")
    /\ items \in {<<Item(<<[url |-> u, type |-> t]>>, <<>>, <<>>, NoImage, "")>> :
                     u \in MediaUrlsIn, t \in MediaTypesIn}
    /\ episodes = <<>>
    /\ applied = FALSE
    /\ now = 0
    /\ cache = <<>>
    /\ slot = [s \in Slots |-> IdleSlot]
    /\ sent = NoEvent
    /\ currentIndex = 0
    /\ dom = NoDom

NextKind == Normalize

SpecKind == InitKind /\ [][NextKind]_vars

(***************************************************************************)
(* The page's script.  The page is rendered from an episode list, the      *)
(* script runs once (renderPlaylist, setActive(0) on a non-empty list),    *)
(* and then the keydown, click and ended handlers run one at a time.  The  *)
(* Space and KeyF branches of the keydown handler pause, resume or go      *)
(* fullscreen: they write neither currentIndex nor any part of dom.        *)
(***************************************************************************)
\* Math.min, Math.max
min(a, b) == IF a <= b THEN a ELSE b

max(a, b) == IF a >= b THEN a ELSE b

\* document.getElementById('ep-' + i) is an element
hasButton(i) == i >= 0 /\ i < Len(episodes)

\* n.focus() on the button of index i, if there is one
focusOn(d, i) == IF hasButton(i) THEN [d EXCEPT !.focused = i] ELSE d

\* playIndex(i): the script's episodes[i] is episodes[i + 1] here
playIndex(i) ==
    /\ IF i < 0 \/ i >= Len(episodes)
       THEN UNCHANGED <<currentIndex, dom>>
       ELSE /\ currentIndex' = i
            /\ dom' = [active |-> i, focused |-> i,
                       shown |-> IF episodes[i + 1].kind = "video" THEN "video"
                                 ELSE "audio",
                       src |-> episodes[i + 1].mediaUrl]
    /\ UNCHANGED <<RSS_DOMAIN_ALLOWLIST, ALLOW_QUERY_RSS, CACHE_TTL_MS, EP_LIMIT,
                   inputUrl, validation, items, episodes, applied, now, cache, slot, sent>>

\* keydown, code ArrowDown
ArrowDown ==
    /\ currentIndex' = min(currentIndex + 1, Len(episodes) - 1)
    /\ dom' = focusOn(dom, min(currentIndex + 1, Len(episodes) - 1))
    /\ UNCHANGED <<RSS_DOMAIN_ALLOWLIST, ALLOW_QUERY_RSS, CACHE_TTL_MS, EP_LIMIT,
                   inputUrl, validation, items, episodes, applied, now, cache, slot, sent>>

\* keydown, code ArrowUp
ArrowUp ==
    /\ currentIndex' = max(currentIndex - 1, 0)
    /\ dom' = focusOn(dom, max(currentIndex - 1, 0))
    /\ UNCHANGED <<RSS_DOMAIN_ALLOWLIST, ALLOW_QUERY_RSS, CACHE_TTL_MS, EP_LIMIT,
                   inputUrl, validation, items, episodes, applied, now, cache, slot, sent>>

\* keydown, code Enter
Enter == playIndex(currentIndex)

\* onclick of the button of index i
Click(i) == hasButton(i) /\ playIndex(i)

\* 'ended' on the media element that has a src
Ended == dom.src # "" /\ playIndex(min(currentIndex + 1, Len(episodes) - 1))

\* the page as sent for a feed, after its script has run
InitPlayer ==
    /\ RSS_DOMAIN_ALLOWLIST = <<>>
    /\ ALLOW_QUERY_RSS = TRUE
    /\ CACHE_TTL_MS = 0
    /\ EP_LIMIT = MaxLimit
    /\ inputUrl = ""
    /\ validation = Rejected("")
    /\ items \in SeqsUpTo(Items, MaxItems)
    /\ episodes = Episodes(items, EP_LIMIT)
    /\ applied = TRUE
    /\ now = 0
    /\ cache = <<>>
    /\ slot = [s \in Slots |-> IdleSlot]
    /\ sent = NoEvent
    /\ currentIndex = 0
    /\ dom = [NoDom EXCEPT !.active = IF Len(episodes) > 0 THEN 0 ELSE -1]

NextPlayer ==
    \/ ArrowDown
    \/ ArrowUp
    \/ Enter
    \/ \E i \in 0..(MaxItems - 1) : Click(i)
    \/ Ended

SpecPlayer == InitPlayer /\ [][NextPlayer]_vars

(***************************************************************************)
(* The properties of getFeed and of the two routes, under Spec.            *)
(***************************************************************************)
\* the cache holds an entry for url, and the entry is within the TTL at time t
freshAt(url, t) ==
    /\ stableHash(url) \in DOMAIN cache
    /\ t - cache[stableHash(url)].at < CACHE_TTL_MS

\* the last step was a request whose route called getFeed
getFeedCalled ==
    sent.route # "" /\ sent.status # 400 /\ sent.upstream \in {"none", "pending"}

\* C1: a getFeed call with force=false made while the URL's entry is within
\* its TTL is answered with the cached feed and does not call parser.parseURL;
\* every other call (no entry, entry past its TTL, or force=true, fresh entry or
\* not) calls it.  So of two consecutive unforced calls within the TTL of the
\* first's successful fetch only the first calls the collaborator.
C1_CacheWithinTtl ==
    getFeedCalled =>
       IF ~sent.force /\ freshAt(sent.rssUrl, now)
       THEN /\ sent.upstream = "none"
            /\ sent.status = 200
            /\ sent.body = okBody(sent.route, cache[stableHash(sent.rssUrl)].feed,
                                  sent.rssUrl)
       ELSE sent.upstream = "pending" /\ sent.status = 0

\* an unforced call, later than the call that fetched the entry, served from it
C1_Witness ==
    /\ getFeedCalled
    /\ sent.upstream = "none"
    /\ ~sent.force
    /\ now > cache[stableHash(sent.rssUrl)].at

\* C2: a step in which parser.parseURL fails leaves the cache as it was and
\* sends the route's error; and a getFeed call with force=false for that URL that
\* follows while the entry is within its TTL is answered with the cached feed,
\* without a call of parser.parseURL.
C2_FailedFetchKeepsEntry ==
    [][/\ sent'.upstream = "failed" =>
             /\ cache' = cache
             /\ sent'.status = 500
       /\ ( /\ sent.upstream = "failed"
            /\ sent'.route # "" /\ sent'.status # 400
            /\ sent'.upstream \in {"none", "pending"}
            /\ sent'.rssUrl = sent.rssUrl
            /\ ~sent'.force
            /\ freshAt(sent.rssUrl, now) )
          => /\ sent'.upstream = "none"
             /\ sent'.body = okBody(sent'.route, cache[stableHash(sent.rssUrl)].feed,
                                    sent.rssUrl)]_vars

\* a fetch has failed for a URL whose entry is still within its TTL
C2_Witness == sent.upstream = "failed" /\ freshAt(sent.rssUrl, now)

\* C4: on either route, with ALLOW_QUERY_RSS set and an rss parameter that
\* validateRssUrl rejects, the request ends with status 400 and a body that
\* carries the reason; the step calls parser.parseURL for no URL, leaves every
\* waiting request as it was and leaves the cache unchanged.
C4_RejectedRssIs400 ==
    [][( /\ ALLOW_QUERY_RSS
         /\ sent'.rss # ""
         /\ ~ValidatedQuery[sent'.rss, RSS_DOMAIN_ALLOWLIST].ok )
       => /\ sent'.status = 400
          /\ sent'.route \in Routes
          /\ sent'.body =
                IF sent'.route = "/api/episodes.json"
                THEN [error |-> ValidatedQuery[sent'.rss, RSS_DOMAIN_ALLOWLIST].reason]
                ELSE "Bad rss parameter: "
                     \o ValidatedQuery[sent'.rss, RSS_DOMAIN_ALLOWLIST].reason
          /\ sent'.upstream = "none"
          /\ slot' = slot
          /\ cache' = cache]_vars

\* the page route has refused an rss parameter while a feed is cached
C4_Witness ==
    /\ sent.status = 400
    /\ sent.route = "/"
    /\ sent.rss = "http://localhost/feed"
    /\ DOMAIN cache # {}

\* C5: no two requests wait for parser.parseURL on the same URL at the same
\* time.
C5_SingleFlight ==
    \A s, t \in Slots :
       (s # t /\ slot[s].pc = "fetching" /\ slot[t].pc = "fetching")
          => slot[s].rssUrl # slot[t].rssUrl

\* C7, as claimed: when parser.parseURL fails for a URL that has a cache entry
\* the request is answered 200 with the entry's feed; it is answered 500 only
\* when the URL has no entry.
C7_StaleFeedOnFailure ==
    sent.upstream = "failed" =>
       IF stableHash(sent.rssUrl) \in DOMAIN cache
       THEN /\ sent.status = 200
            /\ sent.body = okBody(sent.route, cache[stableHash(sent.rssUrl)].feed,
                                  sent.rssUrl)
       ELSE sent.status = 500

\* C7, amended: when parser.parseURL fails the request is answered 500 with the
\* route's generic error, whether or not the URL has a cache entry; the entry's
\* feed is never sent in its place.
C7_FailureIs500 ==
    sent.upstream = "failed" =>
       /\ sent.status = 500
       /\ sent.body = IF sent.route = "/api/episodes.json"
                      THEN [error |-> "Error fetching/parsing RSS feed."]
                      ELSE "Error fetching/parsing RSS feed."

\* a fetch has failed for a URL whose entry is past its TTL
C7_Witness ==
    /\ sent.upstream = "failed"
    /\ stableHash(sent.rssUrl) \in DOMAIN cache
    /\ ~freshAt(sent.rssUrl, now)

\* C12: the `at` stored for a URL never decreases: no step replaces the entry
\* of a URL by one with an earlier `at`, nor removes it.
C12_FetchedAtNeverDecreases ==
    [][\A k \in DOMAIN cache :
          k \in DOMAIN cache' /\ cache'[k].at >= cache[k].at]_vars

(***************************************************************************)
(* The properties of validateRssUrl, under SpecValidate.                   *)
(***************************************************************************)
\* the hosts of C3, the IPv6 ones as a URL spells them
LocalHosts ==
    {"localhost", "a.localhost", "x.local", "127.0.0.1", "10.1.2.3", "192.168.0.5",
     "169.254.1.1", "[::1]", "[fe80::1]", "[fc00::1]"}

\* C3: validateRssUrl rejects every http or https URL whose host is one of
\* localhost, a.localhost, x.local, 127.0.0.1, 10.1.2.3, 192.168.0.5,
\* 169.254.1.1, ::1, fe80::1, fc00::1.
C3_RejectsLocalHosts ==
    ( /\ applied
      /\ \E scheme \in {"http://", "https://"}, h \in LocalHosts, path \in PathsIn :
            inputUrl = scheme \o h \o path )
    => ~validation.ok

\* the URL passes every check of validateRssUrl that comes before the allowlist
passesEarlierChecks(input) == validateRssUrl(input, <<>>).ok

\* C6: a URL that passes the scheme, local-name and private-address checks is
\* accepted exactly when the allowlist is empty or its lower-cased hostname
\* equals an entry or ends with "." and the entry; with the allowlist
\* {example.com}, sub.example.com is accepted and evilexample.com is rejected.
C6_AllowlistSuffixMatch ==
    applied =>
       /\ passesEarlierChecks(inputUrl) =>
             ( validation.ok <=>
                  \/ RSS_DOMAIN_ALLOWLIST = <<>>
                  \/ \E i \in 1..Len(RSS_DOMAIN_ALLOWLIST) :
                        \/ toLowerCase(URL(inputUrl).hostname) = RSS_DOMAIN_ALLOWLIST[i]
                        \/ endsWith(toLowerCase(URL(inputUrl).hostname),
                                    "." \o RSS_DOMAIN_ALLOWLIST[i]) )
       /\ ( RSS_DOMAIN_ALLOWLIST = <<"example.com">>
            /\ inputUrl = "https://sub.example.com/feed.xml" ) => validation.ok
       /\ ( RSS_DOMAIN_ALLOWLIST = <<"example.com">>
            /\ inputUrl = "https://evilexample.com/feed.xml" )
          => validation = Rejected("Hostname not in allowlist")

\* the allowlist {example.com} has refused evilexample.com
C6_Witness ==
    /\ applied
    /\ RSS_DOMAIN_ALLOWLIST = <<"example.com">>
    /\ inputUrl = "https://evilexample.com/feed.xml"
    /\ ~validation.ok

(***************************************************************************)
(* The properties of the episode list, under SpecNormalize.                *)
(***************************************************************************)
\* the positions (1-based) of the source items a record is made of: those among
\* the first EP_LIMIT whose selected media URL is not empty
keptPositions ==
    {p \in 1..Len(items) : p <= EP_LIMIT /\ pickMedia(items[p]).url # ""}

\* the i-th of them
nthKept(i) ==
    CHOOSE p \in keptPositions : Cardinality({q \in keptPositions : q < p}) = i - 1

\* C8, as claimed: the id of each record is its 0-based position in the
\* returned list, so the ids are 0..n-1.
C8_IdsAreOutputPositions ==
    applied => \A i \in 1..Len(episodes) : episodes[i].id = i - 1

\* C8, amended: the id of each record is the 0-based position of its item in
\* the feed's item sequence (in the first `limit` items, before the records
\* without media are dropped), so the ids increase strictly and skip the
\* positions of the dropped items.
C8_IdsAreSourcePositions ==
    applied =>
       /\ Len(episodes) = Cardinality(keptPositions)
       /\ \A i \in 1..Len(episodes) : episodes[i].id = nthKept(i) - 1

\* a record is returned whose id is not its position in the returned list
C8_Witness == applied /\ \E i \in 1..Len(episodes) : episodes[i].id # i - 1

\* C9: the list has at most `limit` records; its records are, in order, those
\* of the items among the first `limit` whose selected media URL is not empty,
\* each carrying that URL; so no record has an empty mediaUrl.
C9_TruncatedFilteredInOrder ==
    applied =>
       /\ Len(episodes) <= EP_LIMIT
       /\ Len(episodes) = Cardinality(keptPositions)
       /\ \A i \in 1..Len(episodes) :
             /\ episodes[i].mediaUrl # ""
             /\ episodes[i].mediaUrl = pickMedia(items[nthKept(i)]).url
             /\ episodes[i].link = items[nthKept(i)].link

\* the feed has more items than the limit, and one of the first `limit` is dropped
C9_Witness ==
    /\ applied
    /\ Len(items) > EP_LIMIT
    /\ Len(episodes) > 0
    /\ Len(episodes) < EP_LIMIT

\* C10: in every record neither imageUrl nor mediaUrl starts with "http://".
C10_NoHttpUrls ==
    applied =>
       \A i \in 1..Len(episodes) :
          /\ ~startsWith(episodes[i].imageUrl, "http://")
          /\ ~startsWith(episodes[i].mediaUrl, "http://")

(***************************************************************************)
(* The properties of inferKind, under SpecKind.                            *)
(***************************************************************************)
\* the URL and the MIME type the record's kind was inferred from, in lower case
kindUrl == toLowerCase(items[1].enclosure[1].url)

kindType == toLowerCase(items[1].enclosure[1].type)

\* C11, as claimed: a type starting with video/ gives video and one starting
\* with audio/ gives audio whatever the URL; with neither prefix, a URL with
\* the extension .m3u8, .mp4, .webm or .mov right before a "?", a "#" or its
\* end gives video, and every other input gives audio.
C11_KindByTypeThenExtension ==
    applied =>
       episodes[1].kind =
          IF startsWith(kindType, "video/") THEN "video"
          ELSE IF startsWith(kindType, "audio/") THEN "audio"
          ELSE IF \E e \in {"m3u8", "mp4", "webm", "mov"}, i \in 1..Len(kindUrl) :
                     /\ i + Len(e) <= Len(kindUrl)
                     /\ SubSeq(kindUrl, i, i + Len(e)) = "." \o e
                     /\ \/ i + Len(e) = Len(kindUrl)
                        \/ SubSeq(kindUrl, i + Len(e) + 1, i + Len(e) + 1) \in {"?", "#"}
          THEN "video"
          ELSE "audio"

\* C11, amended: as claimed, except that ".m3u8" gives video wherever it occurs
\* in the URL, not only as an extension before a "?", a "#" or the end.
C11_KindByTypeThenUrl ==
    applied =>
       /\ episodes[1].kind \in {"audio", "video"}
       /\ episodes[1].kind =
             IF startsWith(kindType, "video/") THEN "video"
             ELSE IF startsWith(kindType, "audio/") THEN "audio"
             ELSE IF \E i \in 1..Len(kindUrl) :
                        i + 4 <= Len(kindUrl) /\ SubSeq(kindUrl, i, i + 4) = ".m3u8"
             THEN "video"
             ELSE IF \E e \in {"mp4", "webm", "mov"}, i \in 1..Len(kindUrl) :
                        /\ i + Len(e) <= Len(kindUrl)
                        /\ SubSeq(kindUrl, i, i + Len(e)) = "." \o e
                        /\ \/ i + Len(e) = Len(kindUrl)
                           \/ SubSeq(kindUrl, i + Len(e) + 1, i + Len(e) + 1) \in {"?", "#"}
             THEN "video"
             ELSE "audio"

\* a record without a MIME type whose URL holds ".m3u8" elsewhere than as its
\* extension, inferred to be video
C11_Witness ==
    /\ applied
    /\ kindType = ""
    /\ kindUrl = "https://cdn.example.com/ep.m3u8/seg.mp3"
    /\ episodes[1].kind = "video"

(***************************************************************************)
(* The properties of the page's script, under SpecPlayer.                  *)
(***************************************************************************)
\* C13: after any sequence of ArrowUp, ArrowDown, Enter, click and 'ended'
\* events currentIndex is within 0..max(0, episodes.length - 1), whatever the
\* length of the list, the empty list included; and what playIndex has loaded
\* is an episode of the list.
C13_CurrentIndexInRange ==
    /\ currentIndex >= 0
    /\ currentIndex <= max(0, Len(episodes) - 1)
    /\ dom.src # "" =>
          /\ dom.active \in 0..(Len(episodes) - 1)
          /\ dom.src = episodes[dom.active + 1].mediaUrl

=============================================================================
